---- MODULE Spec2Model ----
(***************************************************************************)
(* A model of fntwo's relay (router/router.go: the receiver switch, the   *)
(* model viewers' push loop, the camera viewers' pool loop) and of the     *)
(* Facemotion3D receiver's listener (listenTCP / stopListening).           *)
(*                                                                         *)
(* Five specifications share the module, each moving its own variables:    *)
(*   Spec          the router's receiver switch and the model viewers      *)
(*   CameraSpec    the /client/camera handlers and the camera pool         *)
(*   ListenerSpec  the Facemotion3D listener goroutine and stopListening   *)
(*   StreamSpec    the read loop's buffer: matching, parsing and pruning   *)
(*   PayloadSpec   parseFrame on the frame payloads                        *)
(***************************************************************************)
EXTENDS Integers, Sequences, FiniteSets, TLC

\* ------------------------------------------------------------------ bounds
MaxPose == 1            \* pose writes a receiver's listener makes
MaxRequests == 3        \* /api/receiver/change requests handled
MaxCamera == 1          \* camera states are 0..MaxCamera
MaxConns == 2           \* inbound Facemotion3D connections that arrive
MaxStops == 2           \* calls of stopListening
MaxFrames == 1          \* frames the listener parses
MaxFields == 3          \* fields of a frame payload
MaxBytes == 6           \* bytes a device sends on one connection
MaxChunk == 3           \* size of connBuf, the most one Read delivers

\* ------------------------------------------------------------- input data
\* A nil pointer / nil interface value.
Nil == "nil"

\* The receiver names a deployment may configure (keys of receiverMap).
ReceiverNames == {"vmc", "facemotion3d"}

\* Request bodies sent to /api/receiver/change: the names, and two that
\* no map holds.
Bodies == ReceiverNames \cup {"", "bogus"}

\* The /client/model connections.
ModelViewers == {"m1", "m2"}

\* The /client/camera connections.
CameraViewers == {"a", "b", "c"}

\* The camera states viewers send.
Cameras == 0..MaxCamera

\* No camera state written yet.
NoCam == 0 - 1

\* The inbound TCP connections a device may open.
Conns == 1..MaxConns

\* The nil net.Conn: currentConn before anything was accepted.
NoConn == 0

\* No snapshot read yet.
NoSnap == [recv |-> Nil, pose |-> 0, epoch |-> 0 - 1]

VARIABLES
    \* ---- router: receivers and model viewers
    receiverMap,      \* name -> *MotionReceiver (a receiver is known by its name)
    activeReceiver,   \* the package-level pointer, Nil when unset
    started,          \* receivers whose Start() was launched
    vrm,              \* receiver -> version of its pose model (VRM)
    mpc,              \* model viewer -> position in its handler
    mrecv,            \* model viewer -> receiver pointer loaded for this tick
    mtick,            \* model viewer -> switchCount when this tick loaded the pointer
    msnap,            \* model viewer -> last snapshot it read
    mbroken,          \* model viewer -> its transport fails writes
    reqCount,         \* change requests handled
    switchCount,      \* change requests that switched
    lastBody,         \* body of the last change request
    lastResult,       \* outcome of the last change request
    inactiveWrites,   \* receivers whose model was written while not active
    \* ---- router: camera viewers and the camera pool
    cameraPool,       \* subscribers registered in the pool (one per handler)
    sceneCamera,      \* sceneCfg.Camera
    cpc,              \* camera viewer -> position in its handler
    ws,               \* camera viewer -> its WebSocket: "none", "ok" or Nil
    lastSent,         \* camera viewer -> last camera written to its WebSocket
    initSent,         \* camera viewer -> camera its callback got in its first update
    lastUpdate,       \* the last pool update: who ran it, why, callbacks invoked
    poolLock,         \* the handler that holds the registry's lock, or Nil
    passTodo,         \* callbacks the pass under way has still to call
    passCb,           \* the callback the pass is in, between store and write
    arg,              \* camera viewer -> the value and cause of its Update call
    \* ---- facemotion3d: the listener goroutine
    lpc,              \* position of listenTCP
    serverEnabled,    \* the package-level flag
    currentConn,      \* the package-level net.Conn, NoConn before the first accept
    connState,        \* connection -> "unused", "open", "peerclosed", "closed"
    listenerOpen,     \* the listening socket is open
    panicked,         \* "none", or who panicked: "stop" or "listener"
    stopCalls,        \* calls of stopListening that have returned or panicked
    spc,              \* position of the caller of stopListening: "idle", "close"
    conn,             \* the connection Accept returned, not yet in currentConn
    framesParsed,     \* frames parsed into the pose model
    \* ---- facemotion3d: the read loop's buffer on one connection
    liveFrames,       \* the buffer of the read loop
    liveIds,          \* for each byte of liveFrames, its number in the stream
    received,         \* bytes read from the connection so far
    parsedIds,        \* stream bytes that were part of a parsed payload
    lastRead,         \* what the last round of the read loop found and did
    \* ---- facemotion3d: parseFrame
    frameStr,         \* the payload handed to parseFrame
    poseWrites,       \* the pose writes parseFrame made, in order
    ppc               \* "ready", "done" or "panicked"

receiverVars == <<receiverMap, activeReceiver, started, vrm, inactiveWrites>>
requestVars == <<reqCount, switchCount, lastBody, lastResult>>
viewerVars == <<mpc, mrecv, mtick, msnap, mbroken>>
routerVars == <<receiverVars, requestVars, viewerVars>>

cameraVars == <<cameraPool, sceneCamera, cpc, ws, lastSent, initSent, lastUpdate,
                poolLock, passTodo, passCb, arg>>
listenerVars == <<lpc, serverEnabled, currentConn, connState, listenerOpen,
                  panicked, stopCalls, spc, conn, framesParsed>>

streamVars == <<liveFrames, liveIds, received, parsedIds, lastRead>>
payloadVars == <<frameStr, poseWrites, ppc>>
parserVars == <<streamVars, payloadVars>>

vars == <<routerVars, cameraVars, listenerVars, parserVars>>

\* ----------------------------------------------------------------- router

\* receiverMap[k] of a Go map: the zero value (nil) for a missing key.
MapGet(m, k) == IF k \in DOMAIN m THEN m[k] ELSE Nil

\* The maps New may be given: any set of the names, each bound to its receiver.
ReceiverMaps == { [n \in S |-> n] : S \in SUBSET ReceiverNames }

\* A router that falls back on a fixed receiver instead of a map entry.
RangeFirst_Default(m) == IF DOMAIN m = {} THEN {Nil} ELSE {"vmc"}

\* `for name, receiver := range receiverMap { ...; break }`: the first entry
\* of a randomised iteration, so any entry; none for an empty map.
RangeFirst(m) == IF DOMAIN m = {} THEN {Nil} ELSE { m[k] : k \in DOMAIN m }

\* New: the state after the router is built (the first receiver is made
\* active and started, no viewer is connected, no request was handled).
RouterInit ==
    /\ receiverMap \in ReceiverMaps
    /\ activeReceiver \in RangeFirst(receiverMap)
    /\ started = IF activeReceiver = Nil THEN {} ELSE {activeReceiver}
    /\ vrm = [r \in ReceiverNames |-> 0]
    /\ inactiveWrites = {}
    /\ mpc = [v \in ModelViewers |-> "idle"]
    /\ mrecv = [v \in ModelViewers |-> Nil]
    /\ mtick = [v \in ModelViewers |-> 0]
    /\ msnap = [v \in ModelViewers |-> NoSnap]
    /\ mbroken = [v \in ModelViewers |-> FALSE]
    /\ reqCount = 0
    /\ switchCount = 0
    /\ lastBody = ""
    /\ lastResult = "none"

\* /api/receiver/change whose body cannot be read: logged, nothing changes.
ReceiverChangeBodyErr ==
    /\ reqCount < MaxRequests
    /\ reqCount' = reqCount + 1
    /\ lastBody' = ""
    /\ lastResult' = "readerr"
    /\ UNCHANGED <<receiverVars, viewerVars, switchCount>>
    /\ UNCHANGED <<cameraVars, listenerVars, parserVars>>

\* A handler that assigns without the existence check.
ReceiverChange_NoCheck(suggestedReceiver) ==
    /\ reqCount < MaxRequests
    /\ reqCount' = reqCount + 1
    /\ lastBody' = suggestedReceiver
    /\ activeReceiver' = MapGet(receiverMap, suggestedReceiver)
    /\ switchCount' = switchCount + 1
    /\ lastResult' = "switched"
    /\ UNCHANGED <<receiverMap, started, vrm, inactiveWrites, viewerVars>>
    /\ UNCHANGED <<cameraVars, listenerVars, parserVars>>

\* A handler that also launches the receiver it switches to.
ReceiverChange_Starts(suggestedReceiver) ==
    /\ reqCount < MaxRequests
    /\ reqCount' = reqCount + 1
    /\ lastBody' = suggestedReceiver
    /\ IF MapGet(receiverMap, suggestedReceiver) = Nil
         THEN /\ lastResult' = "rejected"
              /\ UNCHANGED <<activeReceiver, switchCount, started>>
         ELSE /\ activeReceiver' = MapGet(receiverMap, suggestedReceiver)
              /\ started' = started \cup {MapGet(receiverMap, suggestedReceiver)}
              /\ switchCount' = switchCount + 1
              /\ lastResult' = "switched"
    /\ UNCHANGED <<receiverMap, vrm, inactiveWrites, viewerVars>>
    /\ UNCHANGED <<cameraVars, listenerVars, parserVars>>

\* /api/receiver/change with a readable body: an unknown name is logged and
\* the handler returns; a known one is assigned to activeReceiver.
ReceiverChange(suggestedReceiver) ==
    /\ reqCount < MaxRequests
    /\ reqCount' = reqCount + 1
    /\ lastBody' = suggestedReceiver
    /\ IF MapGet(receiverMap, suggestedReceiver) = Nil
         THEN /\ lastResult' = "rejected"
              /\ UNCHANGED <<activeReceiver, switchCount>>
         ELSE /\ activeReceiver' = MapGet(receiverMap, suggestedReceiver)
              /\ switchCount' = switchCount + 1
              /\ lastResult' = "switched"
    /\ UNCHANGED <<receiverMap, started, vrm, inactiveWrites, viewerVars>>
    /\ UNCHANGED <<cameraVars, listenerVars, parserVars>>

\* /client/model: the upgrade; on failure the handler returns.
ModelConnect(v) ==
    /\ mpc[v] = "idle"
    /\ \E ok \in BOOLEAN : mpc' = [mpc EXCEPT ![v] = IF ok THEN "loop" ELSE "closed"]
    /\ UNCHANGED <<receiverVars, requestVars, mrecv, mtick, msnap, mbroken>>
    /\ UNCHANGED <<cameraVars, listenerVars, parserVars>>

\* A viewer that keeps the receiver it loaded on its first tick.
ModelLoad_Cached(v) ==
    /\ mpc[v] = "loop"
    /\ LET p == IF mrecv[v] = Nil THEN activeReceiver ELSE mrecv[v] IN
         /\ mrecv' = [mrecv EXCEPT ![v] = p]
         /\ mpc' = [mpc EXCEPT ![v] = IF p = Nil THEN "panicked" ELSE "loaded"]
    /\ mtick' = [mtick EXCEPT ![v] = switchCount]
    /\ UNCHANGED <<receiverVars, requestVars, msnap, mbroken>>
    /\ UNCHANGED <<cameraVars, listenerVars, parserVars>>

\* One tick, first half: `activeReceiver.VRM` loads the package-level pointer
\* (an unsynchronised word-sized load: it yields the value stored at the time
\* the load runs); a nil pointer panics the handler's goroutine.
ModelLoad(v) ==
    /\ mpc[v] = "loop"
    /\ mrecv' = [mrecv EXCEPT ![v] = activeReceiver]
    /\ mpc' = [mpc EXCEPT ![v] = IF activeReceiver = Nil THEN "panicked" ELSE "loaded"]
    /\ mtick' = [mtick EXCEPT ![v] = switchCount]
    /\ UNCHANGED <<receiverVars, requestVars, msnap, mbroken>>
    /\ UNCHANGED <<cameraVars, listenerVars, parserVars>>

\* One tick, second half: VRM.Read hands the callback a snapshot of the loaded
\* receiver's model, the callback writes it (a failed write only returns from
\* the callback), and the loop sleeps and goes round again.
ModelRead(v) ==
    /\ mpc[v] = "loaded"
    /\ msnap' = [msnap EXCEPT ![v] =
                    [recv |-> mrecv[v], pose |-> vrm[mrecv[v]], epoch |-> mtick[v]]]
    /\ mpc' = [mpc EXCEPT ![v] = "loop"]
    /\ UNCHANGED <<receiverVars, requestVars, mrecv, mtick, mbroken>>
    /\ UNCHANGED <<cameraVars, listenerVars, parserVars>>

\* The viewer goes away: every later write to its transport fails.
ModelBreak(v) ==
    /\ mpc[v] \in {"loop", "loaded"}
    /\ ~mbroken[v]
    /\ mbroken' = [mbroken EXCEPT ![v] = TRUE]
    /\ UNCHANGED <<receiverVars, requestVars, mpc, mrecv, mtick, msnap>>
    /\ UNCHANGED <<cameraVars, listenerVars, parserVars>>

\* A started receiver's listener writes a bone or a blend shape to its model.
WritePose(r) ==
    /\ r \in started
    /\ vrm[r] < MaxPose
    /\ vrm' = [vrm EXCEPT ![r] = vrm[r] + 1]
    /\ inactiveWrites' = IF r = activeReceiver THEN inactiveWrites
                         ELSE inactiveWrites \cup {r}
    /\ UNCHANGED <<receiverMap, activeReceiver, started, requestVars, viewerVars>>
    /\ UNCHANGED <<cameraVars, listenerVars, parserVars>>

\* ------------------------------------------------------- camera viewers

\* The argument of a call of cameraPool.Update that is not under way.
NoArg == [value |-> NoCam, cause |-> "none"]

\* New: an empty pool, the scene's camera as loaded, no viewer connected.
CameraInit ==
    /\ cameraPool = {}
    /\ sceneCamera = 0
    /\ cpc = [v \in CameraViewers |-> "idle"]
    /\ ws = [v \in CameraViewers |-> "none"]
    /\ lastSent = [v \in CameraViewers |-> NoCam]
    /\ initSent = [v \in CameraViewers |-> NoCam]
    /\ lastUpdate = [by |-> Nil, cause |-> "none", invoked |-> {}]
    /\ poolLock = Nil
    /\ passTodo = {}
    /\ passCb = Nil
    /\ arg = [v \in CameraViewers |-> NoArg]

\* /client/camera: the upgrade (a failure is logged and the handler goes on
\* with a nil WebSocket), then cameraPool.Create registers the callback under
\* the registry's lock.
CameraConnect(v) ==
    /\ cpc[v] = "idle"
    /\ poolLock = Nil
    /\ \E upgraded \in BOOLEAN : ws' = [ws EXCEPT ![v] = IF upgraded THEN "ok" ELSE Nil]
    /\ cameraPool' = cameraPool \cup {v}
    /\ cpc' = [cpc EXCEPT ![v] = "created"]
    /\ UNCHANGED <<sceneCamera, lastSent, initSent, lastUpdate, poolLock, passTodo,
                   passCb, arg>>
    /\ UNCHANGED <<routerVars, listenerVars, parserVars>>

\* The call cameraPool.Update(sceneCfg.Camera) by handler v: the argument is
\* sceneCfg.Camera as it is when the call is made.
UpdateCall(v, cause) ==
    /\ arg' = [arg EXCEPT ![v] = [value |-> sceneCamera, cause |-> cause]]
    /\ cpc' = [cpc EXCEPT ![v] = "wait"]
    /\ UNCHANGED <<cameraPool, sceneCamera, ws, lastSent, initSent, lastUpdate,
                   poolLock, passTodo, passCb>>
    /\ UNCHANGED <<routerVars, listenerVars, parserVars>>

\* cameraPool.Update(sceneCfg.Camera) right after the creation (router.go:126).
CameraInitialUpdate(v) ==
    /\ cpc[v] = "created"
    /\ UpdateCall(v, "init")

\* cameraPool.Update(sceneCfg.Camera) after a successful read (router.go:142).
CameraRelay(v) ==
    /\ cpc[v] = "update"
    /\ UpdateCall(v, "message")

\* cameraPool.Update(sceneCfg.Camera) after a failed read and the Delete
\* (router.go:142 with isDead set).
CameraFailureUpdate(v) ==
    /\ cpc[v] = "deleted"
    /\ UpdateCall(v, "failure")

\* Update takes the registry's lock and starts its pass over the callbacks
\* registered at that time.
PassBegin(v) ==
    /\ cpc[v] = "wait"
    /\ poolLock = Nil
    /\ poolLock' = v
    /\ passTodo' = cameraPool
    /\ lastUpdate' = [by |-> v, cause |-> arg[v].cause, invoked |-> {}]
    /\ cpc' = [cpc EXCEPT ![v] = "pass"]
    /\ UNCHANGED <<cameraPool, sceneCamera, ws, lastSent, initSent, passCb, arg>>
    /\ UNCHANGED <<routerVars, listenerVars, parserVars>>

\* The pass calls the callback of w, in no fixed order; the callback stores
\* the relayed value in sceneCfg.Camera (router.go:114).
CallbackStore(v, w) ==
    /\ cpc[v] = "pass"
    /\ passCb = Nil
    /\ w \in passTodo
    /\ sceneCamera' = arg[v].value
    /\ passCb' = w
    /\ passTodo' = passTodo \ {w}
    /\ UNCHANGED <<cameraPool, cpc, ws, lastSent, initSent, lastUpdate, poolLock, arg>>
    /\ UNCHANGED <<routerVars, listenerVars, parserVars>>

\* The callback then writes sceneCfg.Camera, read again, to its WebSocket
\* (router.go:119).  On a nil WebSocket ws.WriteJSON panics: the pass and the
\* handler that runs it end there, the lock is released as the panic unwinds.
CallbackSend(v) ==
    /\ cpc[v] = "pass"
    /\ passCb # Nil
    /\ passCb' = Nil
    /\ IF ws[passCb] = Nil
       THEN /\ cpc' = [cpc EXCEPT ![v] = "panicked"]
            /\ poolLock' = Nil
            /\ passTodo' = {}
            /\ arg' = [arg EXCEPT ![v] = NoArg]
            /\ UNCHANGED <<lastSent, initSent, lastUpdate>>
       ELSE /\ lastSent' = [lastSent EXCEPT ![passCb] = sceneCamera]
            /\ initSent' = IF passCb = v /\ arg[v].cause = "init"
                           THEN [initSent EXCEPT ![v] = sceneCamera]
                           ELSE initSent
            /\ lastUpdate' = [lastUpdate EXCEPT !.invoked = @ \cup {passCb}]
            /\ UNCHANGED <<cpc, poolLock, passTodo, arg>>
    /\ UNCHANGED <<cameraPool, sceneCamera, ws>>
    /\ UNCHANGED <<routerVars, listenerVars, parserVars>>

\* The pass is over: the lock is released and the handler goes on to read,
\* or, with isDead set, leaves its loop.
PassEnd(v) ==
    /\ cpc[v] = "pass"
    /\ passCb = Nil
    /\ passTodo = {}
    /\ poolLock' = Nil
    /\ cpc' = [cpc EXCEPT ![v] = IF arg[v].cause = "failure" THEN "done" ELSE "reading"]
    /\ arg' = [arg EXCEPT ![v] = NoArg]
    /\ UNCHANGED <<cameraPool, sceneCamera, ws, lastSent, initSent, lastUpdate,
                   passTodo, passCb>>
    /\ UNCHANGED <<routerVars, listenerVars, parserVars>>

\* ws.ReadJSON(&sceneCfg.Camera) returns a camera the viewer sent: the
\* decoder stores it in sceneCfg.Camera, under no lock (router.go:134).
CameraReadOk(v, c) ==
    /\ cpc[v] = "reading"
    /\ sceneCamera' = c
    /\ cpc' = [cpc EXCEPT ![v] = "update"]
    /\ UNCHANGED <<cameraPool, ws, lastSent, initSent, lastUpdate, poolLock,
                   passTodo, passCb, arg>>
    /\ UNCHANGED <<routerVars, listenerVars, parserVars>>

\* ws.ReadJSON fails; the decoder may have stored part of a message in
\* sceneCfg.Camera before it failed.
CameraReadFail(v, c) ==
    /\ cpc[v] = "reading"
    /\ sceneCamera' = c
    /\ cpc' = [cpc EXCEPT ![v] = "failed"]
    /\ UNCHANGED <<cameraPool, ws, lastSent, initSent, lastUpdate, poolLock,
                   passTodo, passCb, arg>>
    /\ UNCHANGED <<routerVars, listenerVars, parserVars>>

\* cameraClient.Delete() under the registry's lock, then isDead = true
\* (router.go:136-137).
CameraDelete(v) ==
    /\ cpc[v] = "failed"
    /\ poolLock = Nil
    /\ cameraPool' = cameraPool \ {v}
    /\ cpc' = [cpc EXCEPT ![v] = "deleted"]
    /\ UNCHANGED <<sceneCamera, ws, lastSent, initSent, lastUpdate, poolLock,
                   passTodo, passCb, arg>>
    /\ UNCHANGED <<routerVars, listenerVars, parserVars>>

CameraNext ==
    \/ \E v \in CameraViewers : CameraConnect(v)
    \/ \E v \in CameraViewers : CameraInitialUpdate(v)
    \/ \E v \in CameraViewers : PassBegin(v)
    \/ \E v, w \in CameraViewers : CallbackStore(v, w)
    \/ \E v \in CameraViewers : CallbackSend(v)
    \/ \E v \in CameraViewers : PassEnd(v)
    \/ \E v \in CameraViewers, c \in Cameras : CameraReadOk(v, c)
    \/ \E v \in CameraViewers : CameraRelay(v)
    \/ \E v \in CameraViewers, c \in Cameras : CameraReadFail(v, c)
    \/ \E v \in CameraViewers : CameraDelete(v)
    \/ \E v \in CameraViewers : CameraFailureUpdate(v)

\* ------------------------------------------------------------------ strings
\* A Go string is a sequence of one-character strings.  The sentinel is one
\* element: no proper prefix of "___FACEMOTION3D" is also a suffix of it, so
\* its occurrences never overlap, and the streams of the model hold the
\* sentinel's characters only inside whole sentinels.

\* The frame delimiter of router.go:326.
Sentinel == "___FACEMOTION3D"

\* The zero byte the unread rest of connBuf holds.
NUL == "NUL"

\* The line break, which `.` of a Go regular expression does not match.
LF == "\n"

\* The least element of a non-empty set of integers.
Min(S) == CHOOSE x \in S : \A y \in S : x <= y

\* The greatest element of a non-empty set of integers.
Max(S) == CHOOSE x \in S : \A y \in S : y <= x

\* s holds sub at position i.
HasAt(s, sub, i) ==
    /\ i + Len(sub) - 1 <= Len(s)
    /\ \A k \in 1..Len(sub) : s[i + k - 1] = sub[k]

\* strings.Contains(s, sub).
Contains(s, sub) == \E i \in 1..(Len(s) + 1) : HasAt(s, sub, i)

\* strings.Index(s, sub) for a sub that s contains.
Index(s, sub) == Min({i \in 1..(Len(s) + 1) : HasAt(s, sub, i)})

\* strings.Split(s, sep) for a non-empty sep: the pieces between the
\* occurrences of sep, <<s>> when there is none.
RECURSIVE Split(_, _)
Split(s, sep) ==
    IF ~Contains(s, sep)
    THEN <<s>>
    ELSE LET i == Index(s, sep)
         IN  <<SubSeq(s, 1, i - 1)>> \o Split(SubSeq(s, i + Len(sep), Len(s)), sep)

\* The starts of the occurrences of old strings.ReplaceAll finds in s from
\* position from on: left to right, none overlapping the one before.
RECURSIVE Occurrences(_, _, _)
Occurrences(s, old, from) ==
    LET hits == {i \in from..Len(s) : HasAt(s, old, i)}
    IN  IF old = <<>> \/ hits = {}
        THEN {}
        ELSE {Min(hits)} \cup Occurrences(s, old, Min(hits) + Len(old))

\* The positions of s that strings.ReplaceAll(s, old, "") deletes.
Removed(s, old) ==
    {i \in 1..Len(s) : \E o \in Occurrences(s, old, 1) : o <= i /\ i < o + Len(old)}

\* seq without the elements at the positions in drop, from position i on.
RECURSIVE Keep(_, _, _)
Keep(seq, drop, i) ==
    IF i > Len(seq)
    THEN <<>>
    ELSE (IF i \in drop THEN <<>> ELSE <<seq[i]>>) \o Keep(seq, drop, i + 1)

\* strings.ReplaceAll(s, old, ""): every occurrence of old deleted.
ReplaceAll(s, old) == Keep(s, Removed(s, old), 1)

\* strings.ToUpper of a one-character string, for the letters of the model.
ToUpper(c) ==
    CASE c = "x" -> "X"
      [] c = "a" -> "A"
      [] c = "b" -> "B"
      [] c = "h" -> "H"
      [] OTHER -> c

\* The decimal digits and their values.
DigitVal ==
    [d \in {"0", "1", "2", "3", "4", "5", "6", "7", "8", "9"} |->
        CASE d = "0" -> 0 [] d = "1" -> 1 [] d = "2" -> 2 [] d = "3" -> 3
          [] d = "4" -> 4 [] d = "5" -> 5 [] d = "6" -> 6 [] d = "7" -> 7
          [] d = "8" -> 8 [] d = "9" -> 9]

\* The value of a sequence of digits.
RECURSIVE DigitsValue(_)
DigitsValue(s) ==
    IF s = <<>> THEN 0
    ELSE 10 * DigitsValue(SubSeq(s, 1, Len(s) - 1)) + DigitVal[s[Len(s)]]

\* strconv.ParseFloat(s, 64) on the texts of the model, which hold no ".",
\* exponent, hexadecimal, "inf" or "nan" form: a number is an optional sign
\* and one or more digits; everything else is a syntax error.
ParseFloat(s) ==
    LET signed == Len(s) >= 1 /\ s[1] \in {"-", "+"}
        digits == IF signed THEN SubSeq(s, 2, Len(s)) ELSE s
        ok     == digits # <<>> /\ \A k \in 1..Len(digits) : digits[k] \in DOMAIN DigitVal
    IN  IF ~ok THEN [err |-> TRUE, value |-> 0]
        ELSE [err |-> FALSE,
              value |-> IF signed /\ s[1] = "-" THEN 0 - DigitsValue(digits)
                        ELSE DigitsValue(digits)]

\* --------------------------------------------------------------- parseFrame
\* The blend-shape values arrive as 0..100 and are divided by this.
BlendShapeScale == 100

\* The Euler angles of the bone named "Head" are divided by this.
HeadDivisor == 32

\* The Euler angles of every other bone are divided by this.
BoneDivisor == 128

\* A float64 quotient n / d, kept exact.
Quot(n, d) == [num |-> n, den |-> d]

\* The quotient q is the number n / d.
QuotIs(q, n, d) == q.num * d = n * q.den

\* The marker of the blend shapes Facemotion3D keeps to itself.
FM_ == <<"F", "M", "_">>

\* The name of the head bone, the one compared with at router.go:404.
HeadBone == <<"H", "e", "a", "d">>

\* The key left as it arrived.
PascalCase_AsIs(key) == key

\* strings.ToUpper(key[0:1]) + key[1:] for a non-empty key.
PascalCase(key) == <<ToUpper(key[1])>> \o SubSeq(key, 2, Len(key))

\* quaternion.FromEuler(phi, theta, psi) of the quaternion library: the
\* rotation is kept as the three angles it is composed from, which fix it;
\* it is the identity rotation when all three are zero.
FromEuler(phi, theta, psi) == [phi |-> phi, theta |-> theta, psi |-> psi]

\* The rotation r is the identity.
IsIdentity(r) == r.phi.num = 0 /\ r.theta.num = 0 /\ r.psi.num = 0

\* The values of the parts that parse as numbers, in order: the loop of
\* router.go:388-397, which skips a part that does not parse.
RECURSIVE NumericValues(_)
NumericValues(parts) ==
    IF parts = <<>> THEN <<>>
    ELSE (IF ParseFloat(Head(parts)).err THEN <<>> ELSE <<ParseFloat(Head(parts)).value>>)
         \o NumericValues(Tail(parts))

\* What one branch of the loop body does with a field: the pose writes it
\* makes, whether it panics, and whether it ends the field (`continue`).
BranchResult(w, p, c) == [writes |-> w, panic |-> p, skip |-> c]

\* The blend-shape branch, router.go:339-373: taken by a field that holds
\* "&".  A field with the marker "FM_" and a value that is no number end the
\* field; an empty name panics in key[0:1].
BlendShapeBranch(payloadStr) ==
    IF ~Contains(payloadStr, <<"&">>) THEN BranchResult(<<>>, FALSE, FALSE)
    ELSE IF Contains(payloadStr, FM_) THEN BranchResult(<<>>, FALSE, TRUE)
    ELSE IF payloadStr = <<>> THEN BranchResult(<<>>, FALSE, TRUE)
    ELSE LET singlePayload == Split(payloadStr, <<"&">>)
             key   == singlePayload[1]
             value == ParseFloat(singlePayload[2])
         IN  IF key = <<>> THEN BranchResult(<<>>, TRUE, FALSE)
             ELSE IF value.err THEN BranchResult(<<>>, FALSE, TRUE)
             ELSE BranchResult(
                    <<[kind |-> "blendShape", key |-> PascalCase(key),
                       weight |-> Quot(value.value, BlendShapeScale)]>>,
                    FALSE, FALSE)

\* The bone branch, router.go:377-428: taken by a field that holds "#".
\* An empty name panics in key[0:1]; fewer than three numeric parts panic
\* in boneValues[0], [1] or [2].
BoneBranch(payloadStr) ==
    IF ~Contains(payloadStr, <<"#">>) THEN BranchResult(<<>>, FALSE, FALSE)
    ELSE LET keyVal     == Split(payloadStr, <<"#">>)
             key        == ReplaceAll(keyVal[1], <<"=">>)
             boneValues == NumericValues(Split(keyVal[2], <<",">>))
             divisor    == IF PascalCase(key) = HeadBone THEN HeadDivisor ELSE BoneDivisor
         IN  IF key = <<>> \/ Len(boneValues) < 3 THEN BranchResult(<<>>, TRUE, FALSE)
             ELSE BranchResult(
                    <<[kind |-> "bone", key |-> PascalCase(key),
                       rotation |-> FromEuler(Quot(boneValues[1], divisor),
                                              Quot(boneValues[2], divisor),
                                              Quot(0 - boneValues[3], divisor))]>>,
                    FALSE, FALSE)

\* One pass of the loop body of parseFrame over a field: the blend-shape
\* branch, then, unless that ended the field or panicked, the bone branch.
ParseField(payloadStr) ==
    LET blend == BlendShapeBranch(payloadStr)
        bone  == BoneBranch(payloadStr)
    IN  IF blend.panic \/ blend.skip
        THEN [writes |-> blend.writes, panic |-> blend.panic]
        ELSE [writes |-> blend.writes \o bone.writes, panic |-> bone.panic]

\* The loop of parseFrame from field i on: a panic ends it, the writes made
\* before it stay made.
RECURSIVE ParseFields(_, _)
ParseFields(payload, i) ==
    IF i > Len(payload) THEN [writes |-> <<>>, panic |-> FALSE]
    ELSE LET field == ParseField(payload[i])
             rest  == ParseFields(payload, i + 1)
         IN  IF field.panic THEN field
             ELSE [writes |-> field.writes \o rest.writes, panic |-> rest.panic]

\* parseFrame of router.go:330-433 on the payload frame: the pose writes it
\* makes, in order, and whether it panics.
parseFrame(frame) == ParseFields(Split(frame, <<"|">>), 1)

\* ------------------------------------------------- Facemotion3D listener

\* The package-level variables as declared, listenTCP not yet launched.
ListenerInit ==
    /\ lpc = "init"
    /\ serverEnabled = TRUE
    /\ currentConn = NoConn
    /\ connState = [c \in Conns |-> "unused"]
    /\ listenerOpen = FALSE
    /\ panicked = "none"
    /\ stopCalls = 0
    /\ spc = "idle"
    /\ conn = NoConn
    /\ framesParsed = 0

\* The process is alive: an unrecovered panic ends every goroutine.
Alive == panicked = "none"

\* The receiver is started: listenTCP runs as a goroutine.
ListenerStart ==
    /\ Alive /\ lpc = "init"
    /\ lpc' = "listen"
    /\ UNCHANGED <<serverEnabled, currentConn, connState, listenerOpen,
                   panicked, stopCalls, spc, conn, framesParsed>>
    /\ UNCHANGED <<routerVars, cameraVars, parserVars>>

\* net.Listen: on an error listenTCP logs it and returns.
Listen ==
    /\ Alive /\ lpc = "listen"
    /\ \E ok \in BOOLEAN :
          /\ lpc' = IF ok THEN "loop" ELSE "nolisten"
          /\ listenerOpen' = ok
    /\ UNCHANGED <<serverEnabled, currentConn, connState, panicked, stopCalls,
                   spc, conn, framesParsed>>
    /\ UNCHANGED <<routerVars, cameraVars, parserVars>>

\* `for serverEnabled`: the loop goes on, or listenTCP returns and the deferred
\* listener.Close() runs.
LoopCheck ==
    /\ Alive /\ lpc = "loop"
    /\ lpc' = IF serverEnabled THEN "handshake" ELSE "exited"
    /\ listenerOpen' = serverEnabled
    /\ UNCHANGED <<serverEnabled, currentConn, connState, panicked, stopCalls,
                   spc, conn, framesParsed>>
    /\ UNCHANGED <<routerVars, cameraVars, parserVars>>

\* sendThroughTCP: the two datagrams are sent, or an error sends the loop to
\* its 3 second sleep and `continue`.
Handshake ==
    /\ Alive /\ lpc = "handshake"
    /\ \E ok \in BOOLEAN : lpc' = IF ok THEN "accept" ELSE "backoff"
    /\ UNCHANGED <<serverEnabled, currentConn, connState, listenerOpen,
                   panicked, stopCalls, spc, conn, framesParsed>>
    /\ UNCHANGED <<routerVars, cameraVars, parserVars>>

\* time.Sleep(3 * time.Second) ends; back to the loop condition.
BackoffDone ==
    /\ Alive /\ lpc = "backoff"
    /\ lpc' = "loop"
    /\ UNCHANGED <<serverEnabled, currentConn, connState, listenerOpen,
                   panicked, stopCalls, spc, conn, framesParsed>>
    /\ UNCHANGED <<routerVars, cameraVars, parserVars>>

\* listener.Accept returns a new inbound connection in the local conn.
AcceptOk(c) ==
    /\ Alive /\ lpc = "accept" /\ listenerOpen
    /\ connState[c] = "unused"
    /\ connState' = [connState EXCEPT ![c] = "open"]
    /\ conn' = c
    /\ lpc' = "assign"
    /\ UNCHANGED <<serverEnabled, currentConn, listenerOpen, panicked, stopCalls,
                   spc, framesParsed>>
    /\ UNCHANGED <<routerVars, cameraVars, parserVars>>

\* currentConn = conn (router.go:483), an unsynchronised store to the
\* package-level variable.
AssignConn ==
    /\ Alive /\ lpc = "assign"
    /\ currentConn' = conn
    /\ conn' = NoConn
    /\ lpc' = "read"
    /\ UNCHANGED <<serverEnabled, connState, listenerOpen, panicked, stopCalls,
                   spc, framesParsed>>
    /\ UNCHANGED <<routerVars, cameraVars, parserVars>>

\* listener.Accept returns an error: it is logged, currentConn keeps its old
\* value, and the code goes on to the read loop.
AcceptFail ==
    /\ Alive /\ lpc = "accept"
    /\ lpc' = "read"
    /\ UNCHANGED <<serverEnabled, currentConn, connState, listenerOpen,
                   panicked, stopCalls, spc, conn, framesParsed>>
    /\ UNCHANGED <<routerVars, cameraVars, parserVars>>

\* currentConn.Read on the nil interface: a nil dereference in the listener's
\* goroutine, which nothing recovers.
ReadNil ==
    /\ Alive /\ lpc = "read" /\ currentConn = NoConn
    /\ panicked' = "listener"
    /\ UNCHANGED <<lpc, serverEnabled, currentConn, connState, listenerOpen,
                   stopCalls, spc, conn, framesParsed>>
    /\ UNCHANGED <<routerVars, cameraVars, parserVars>>

\* currentConn.Read returns bytes (router.go:493).
ReadData ==
    /\ Alive /\ lpc = "read" /\ currentConn # NoConn
    /\ connState[currentConn] = "open"
    /\ lpc' = "parse"
    /\ UNCHANGED <<serverEnabled, currentConn, connState, listenerOpen,
                   panicked, stopCalls, spc, conn, framesParsed>>
    /\ UNCHANGED <<routerVars, cameraVars, parserVars>>

\* The frame payloads a device's bytes may complete in the buffer: a&20,
\* which parseFrame applies, and b=#1,2 and &20, on which it panics.
DeviceFrames ==
    { <<"a", "&", "2", "0">>,
      <<"b", "=", "#", "1", ",", "2">>,
      <<"&", "2", "0">> }

\* The rest of the round, router.go:497-512, on the bytes read: no frame is
\* complete yet, or one is matched and handed to parseFrame, whose panic
\* nothing in the listener's goroutine recovers.
ParseData ==
    /\ Alive /\ lpc = "parse"
    /\ \/ /\ lpc' = "read"
          /\ UNCHANGED <<framesParsed, panicked>>
       \/ \E frame \in DeviceFrames :
             IF parseFrame(frame).panic
             THEN /\ panicked' = "listener"
                  /\ UNCHANGED <<lpc, framesParsed>>
             ELSE /\ framesParsed < MaxFrames
                  /\ framesParsed' = framesParsed + 1
                  /\ lpc' = "read"
                  /\ UNCHANGED panicked
    /\ UNCHANGED <<serverEnabled, currentConn, connState, listenerOpen,
                   stopCalls, spc, conn>>
    /\ UNCHANGED <<routerVars, cameraVars, parserVars>>

\* currentConn.Read returns an error (the peer is gone, or the connection was
\* closed here): `break`, then the 3 second sleep.  The connection is not
\* closed on this path.
ReadFail ==
    /\ Alive /\ lpc = "read" /\ currentConn # NoConn
    /\ connState[currentConn] \in {"peerclosed", "closed"}
    /\ lpc' = "backoff"
    /\ UNCHANGED <<serverEnabled, currentConn, connState, listenerOpen,
                   panicked, stopCalls, spc, conn, framesParsed>>
    /\ UNCHANGED <<routerVars, cameraVars, parserVars>>

\* The device closes or resets a connection it opened.
PeerClose(c) ==
    /\ Alive /\ connState[c] = "open"
    /\ connState' = [connState EXCEPT ![c] = "peerclosed"]
    /\ UNCHANGED <<lpc, serverEnabled, currentConn, listenerOpen, panicked,
                   stopCalls, spc, conn, framesParsed>>
    /\ UNCHANGED <<routerVars, cameraVars, parserVars>>

\* stopListening, first statement: serverEnabled = false (router.go:524),
\* an unsynchronised store.
StopFlag ==
    /\ Alive /\ spc = "idle" /\ stopCalls < MaxStops
    /\ serverEnabled' = FALSE
    /\ spc' = "close"
    /\ UNCHANGED <<lpc, currentConn, connState, listenerOpen, panicked, stopCalls,
                   conn, framesParsed>>
    /\ UNCHANGED <<routerVars, cameraVars, parserVars>>

\* The values the unsynchronised load of currentConn at router.go:525 may
\* yield: the value stored, or, while the listener's store of router.go:483
\* is under way, the value being stored.  currentConn is a two-word
\* interface value: a load that mixes the words of nil and of a connection
\* has a nil type word or a nil pointer, and Close on it panics as on nil;
\* one that mixes two connections is one of the two.
LoadedConns == {currentConn} \cup (IF lpc = "assign" THEN {conn} ELSE {})

\* stopListening, second statement: currentConn.Close() (router.go:525), a
\* method call on a nil interface (a panic) when nothing was accepted yet.
StopClose ==
    /\ Alive /\ spc = "close"
    /\ spc' = "idle"
    /\ stopCalls' = stopCalls + 1
    /\ \E c \in LoadedConns :
          IF c = NoConn
          THEN panicked' = "stop" /\ UNCHANGED connState
          ELSE /\ connState' = [connState EXCEPT ![c] = "closed"]
               /\ UNCHANGED panicked
    /\ UNCHANGED <<lpc, serverEnabled, currentConn, listenerOpen, conn, framesParsed>>
    /\ UNCHANGED <<routerVars, cameraVars, parserVars>>

\* stopListening (router.go:523-526): its two statements, each a step.
stopListening == StopFlag \/ StopClose

\* The steps listenTCP takes by itself, with no inbound connection, no inbound
\* bytes and no error from the operating system needed.
ListenerStep ==
    \/ Listen
    \/ LoopCheck
    \/ Handshake
    \/ BackoffDone
    \/ AssignConn
    \/ ReadNil
    \/ ParseData
    \/ ReadFail

ListenerNext ==
    \/ ListenerStart
    \/ ListenerStep
    \/ \E c \in Conns : AcceptOk(c)
    \/ AcceptFail
    \/ ReadData
    \/ \E c \in Conns : PeerClose(c)
    \/ stopListening

\* -------------------------------------------------- parseFrame on its inputs
\* The fields the frames of the model are put together from: blend shapes
\* and bones that are well formed, and ones whose numbers are not.
Fields ==
    { <<"x", "=", "0", "&", "2", "0">>,                          \* x=0&20
      <<"a", "&", "2", "0">>,                                    \* a&20
      <<"b", "&", "x">>,                                         \* b&x
      <<"F", "M", "_", "a", "&", "2", "0">>,                     \* FM_a&20
      <<>>,                                                      \* empty
      <<"H", "e", "a", "d", "=", "#", "0", ",", "0", ",", "0", ",">>, \* Head=#0,0,0,
      <<"=", "h", "#", "1", ",", "2", ",", "3">>,                \* =h#1,2,3
      <<"b", "=", "#", "1", ",", "x", ",", "3">>,                \* b=#1,x,3
      <<"b", "=", "#", "1", ",", "2">>,                          \* b=#1,2
      <<"b", "=", "#", "1", ",", "x", ",", "3", ",", "4">> }     \* b=#1,x,3,4

\* strings.Join(parts, sep).
RECURSIVE Join(_, _)
Join(parts, sep) ==
    IF parts = <<>> THEN <<>>
    ELSE IF Len(parts) = 1 THEN parts[1]
    ELSE parts[1] \o sep \o Join(Tail(parts), sep)

\* The frame payloads handed to parseFrame: up to MaxFields fields with "|"
\* between them.
FramePayloads ==
    {Join(fs, <<"|">>) : fs \in UNION {[1..n -> Fields] : n \in 1..MaxFields}}

\* The frame of the end-to-end example: x=0&20|Head=#0,0,0,|
ExampleFrame ==
    <<"x", "=", "0", "&", "2", "0", "|",
      "H", "e", "a", "d", "=", "#", "0", ",", "0", ",", "0", ",", "|">>

PayloadInit ==
    /\ frameStr \in FramePayloads
    /\ poseWrites = <<>>
    /\ ppc = "ready"

\* A call parseFrame(frameStr): its writes reach the pose model in order; a
\* panic ends the listener's goroutine.
ParseFrameCall ==
    /\ ppc = "ready"
    /\ poseWrites' = parseFrame(frameStr).writes
    /\ ppc' = IF parseFrame(frameStr).panic THEN "panicked" ELSE "done"
    /\ UNCHANGED <<frameStr, routerVars, cameraVars, listenerVars, streamVars>>

PayloadNext == ParseFrameCall

\* ------------------------------------------------- the read loop's buffer
\* The bytes a device sends on the connection.
WireBytes == {Sentinel, "a", LF}

\* What one Read delivers: 1..MaxChunk bytes.
Chunks == UNION {[1..n -> WireBytes] : n \in 1..MaxChunk}

\* No match: FindStringSubmatch returned nil.
NoMatch == [start |-> 0, open |-> 0, close |-> 0]

\* The ways matchFrames, (.*SENTINEL(.*?))SENTINEL, matches in s: from
\* start, with the first sentinel at open and the second at close.  `.`
\* matches every character but the line break.
MatchCandidates(s) ==
    {m \in [start : 1..Len(s), open : 1..Len(s), close : 1..Len(s)] :
        /\ m.start <= m.open /\ m.open < m.close
        /\ s[m.open] = Sentinel /\ s[m.close] = Sentinel
        /\ \A k \in m.start..m.close : s[k] # LF}

\* matchFrames.FindStringSubmatch(s) as positions: the leftmost match, in
\* it the longest first `.*`, then the shortest `.*?`.
FindStringSubmatch(s) ==
    LET all    == MatchCandidates(s)
        start  == Min({m.start : m \in all})
        open   == Max({m.open : m \in {c \in all : c.start = start}})
        close  == Min({m.close : m \in {c \in all : c.start = start /\ c.open = open}})
    IN  IF all = {} THEN NoMatch
        ELSE [start |-> start, open |-> open, close |-> close]

\* matchedFrames[1]: everything matched before the second sentinel.
AllBeforeDelimiter(s, m) == SubSeq(s, m.start, m.close - 1)

\* matchedFrames[2]: the payload between the two sentinels.
LatestFrame(s, m) == SubSeq(s, m.open + 1, m.close - 1)

\* Nothing pruned.
PrunedPositions_None(s, m) == {}

\* The positions of s the prune of router.go:512 deletes:
\* strings.ReplaceAll(liveFrames, allBeforeDelimiter, "").
PrunedPositions(s, m) == Removed(s, AllBeforeDelimiter(s, m))

\* The last read before any read.
NoRead ==
    [matched |-> FALSE, before |-> <<>>, beforeIds |-> <<>>, m |-> NoMatch,
     frameIds |-> <<>>, parsedBefore |-> {}, writes |-> <<>>, afterIds |-> <<>>]

StreamInit ==
    /\ liveFrames = <<>>
    /\ liveIds = <<>>
    /\ received = 0
    /\ parsedIds = {}
    /\ lastRead = NoRead

\* The elements of a sequence.
Range(seq) == {seq[k] : k \in 1..Len(seq)}

\* One round of the read loop, router.go:489-514, on a Read that delivers
\* chunk: connBuf, zero behind the bytes read, is appended whole; the zero
\* bytes are stripped; on a match the payload is parsed and the buffer
\* pruned.  liveIds numbers the bytes of liveFrames by their place in the
\* stream.
FrameRead(chunk) ==
    /\ received + Len(chunk) <= MaxBytes
    /\ LET connBuf     == chunk \o [k \in 1..(MaxChunk - Len(chunk)) |-> NUL]
           connIds     == [k \in 1..MaxChunk |->
                              IF k <= Len(chunk) THEN received + k ELSE 0]
           appended    == liveFrames \o connBuf
           nulls       == Removed(appended, <<NUL>>)
           stripped    == ReplaceAll(appended, <<NUL>>)
           strippedIds == Keep(liveIds \o connIds, nulls, 1)
           m           == FindStringSubmatch(stripped)
           pruned      == PrunedPositions(stripped, m)
           frameIds    == LatestFrame(strippedIds, m)
       IN  /\ received' = received + Len(chunk)
           /\ IF m = NoMatch
              THEN /\ liveFrames' = stripped
                   /\ liveIds' = strippedIds
                   /\ parsedIds' = parsedIds
                   /\ lastRead' = [NoRead EXCEPT !.before = stripped,
                                                 !.beforeIds = strippedIds,
                                                 !.parsedBefore = parsedIds,
                                                 !.afterIds = strippedIds]
              ELSE /\ liveFrames' = Keep(stripped, pruned, 1)
                   /\ liveIds' = Keep(strippedIds, pruned, 1)
                   /\ parsedIds' = parsedIds \cup Range(frameIds)
                   /\ lastRead' = [matched |-> TRUE, before |-> stripped,
                                   beforeIds |-> strippedIds, m |-> m,
                                   frameIds |-> frameIds,
                                   parsedBefore |-> parsedIds,
                                   writes |-> parseFrame(LatestFrame(stripped, m)).writes,
                                   afterIds |-> Keep(strippedIds, pruned, 1)]
    /\ UNCHANGED <<routerVars, cameraVars, listenerVars, payloadVars>>

StreamNext == \E chunk \in Chunks : FrameRead(chunk)

\* ------------------------------------------------------- specifications

\* No call of parseFrame is under way.
PayloadIdle ==
    /\ frameStr = ExampleFrame
    /\ poseWrites = <<>>
    /\ ppc = "ready"

Init == RouterInit /\ CameraInit /\ ListenerInit /\ StreamInit /\ PayloadIdle

Next ==
    \/ \E b \in Bodies : ReceiverChange(b)
    \/ ReceiverChangeBodyErr
    \/ \E v \in ModelViewers : ModelConnect(v)
    \/ \E v \in ModelViewers : ModelLoad(v)
    \/ \E v \in ModelViewers : ModelRead(v)
    \/ \E v \in ModelViewers : ModelBreak(v)
    \/ \E r \in ReceiverNames : WritePose(r)

\* The receiver switch and the model viewers.
Spec == Init /\ [][Next]_vars

\* The camera handlers and the listener never read the receiver map or the
\* active receiver: their specifications start from one router, built with
\* both receivers.
OneRouterInit ==
    /\ Init
    /\ DOMAIN receiverMap = ReceiverNames
    /\ activeReceiver = "facemotion3d"

\* The camera viewers and the camera pool.
CameraSpec == OneRouterInit /\ [][CameraNext]_vars

\* The Facemotion3D listener and stopListening.
ListenerSpec == OneRouterInit /\ [][ListenerNext]_vars

\* The read loop on one connection.
StreamSpec == OneRouterInit /\ [][StreamNext]_vars

\* One router as in OneRouterInit, and a frame payload for parseFrame.
OnePayloadInit ==
    /\ RouterInit /\ CameraInit /\ ListenerInit /\ StreamInit /\ PayloadInit
    /\ DOMAIN receiverMap = ReceiverNames
    /\ activeReceiver = "facemotion3d"

\* parseFrame, called once on each frame payload of FramePayloads.
PayloadSpec == OnePayloadInit /\ [][PayloadNext]_vars

\* ------------------------------------------------- claims: receiver switch

\* The last step handled a change request with a readable body.
ChangeRequested == reqCount' # reqCount /\ lastResult' # "readerr"

\* C1: a change request whose body names no configured receiver leaves the
\* active receiver (and every receiver's state) as it was and is rejected,
\* whatever requests came before.
C1_UnknownReceiverRejected ==
    [][(ChangeRequested /\ MapGet(receiverMap, lastBody') = Nil)
         => (/\ activeReceiver' = activeReceiver
             /\ UNCHANGED receiverVars
             /\ switchCount' = switchCount
             /\ lastResult' = "rejected")]_vars

\* An unknown name was rejected after an earlier successful switch.
C1_Witness ==
    /\ lastResult = "rejected"
    /\ MapGet(receiverMap, lastBody) = Nil
    /\ switchCount >= 1
    /\ activeReceiver # Nil

\* C2: a snapshot read on a tick that began after the last successful switch
\* completed comes from the receiver switched to.
C2_LaterTicksReadSwitchedReceiver ==
    \A v \in ModelViewers :
        (msnap[v] # NoSnap /\ msnap[v].epoch = switchCount /\ switchCount >= 1)
            => msnap[v].recv = activeReceiver

\* After a switch to another receiver, one viewer has read from it while the
\* other still holds the snapshot it read from the old receiver before.
C2_Witness ==
    /\ switchCount >= 1
    /\ lastResult = "switched"
    /\ activeReceiver \notin started
    /\ msnap["m1"] # NoSnap /\ msnap["m1"].epoch = switchCount
    /\ msnap["m1"].recv = activeReceiver
    /\ msnap["m2"] # NoSnap /\ msnap["m2"].epoch < switchCount
    /\ msnap["m2"].recv # activeReceiver

\* C3: a change request touches no receiver's pose model and starts or stops
\* no listener, and a snapshot shows the model of its receiver as it is when
\* read (so writes made while the receiver was inactive are seen).
C3_SwitchOnlyRepoints ==
    [][/\ (reqCount' # reqCount) =>
             (vrm' = vrm /\ started' = started /\ receiverMap' = receiverMap)
       /\ \A v \in ModelViewers :
             (msnap'[v] # msnap[v]) => msnap'[v].pose = vrm[msnap'[v].recv]]_vars

\* Switched away and back: a viewer then reads the writes made meanwhile.
C3_Witness ==
    /\ switchCount >= 2
    /\ activeReceiver \in inactiveWrites
    /\ \E v \in ModelViewers :
          /\ msnap[v].epoch = switchCount
          /\ msnap[v].recv = activeReceiver
          /\ msnap[v].pose = vrm[activeReceiver]
          /\ msnap[v].pose >= 1

\* C4: built with a non-empty map, the active receiver is always a receiver
\* of the map.
C4_ActiveReceiverInMap ==
    (DOMAIN receiverMap # {}) =>
        activeReceiver \in { receiverMap[k] : k \in DOMAIN receiverMap }

\* Valid and invalid requests were handled on a two-receiver map.
C4_Witness ==
    /\ Cardinality(DOMAIN receiverMap) = 2
    /\ switchCount >= 1
    /\ lastResult = "rejected"
    /\ \E v \in ModelViewers : msnap[v] # NoSnap

\* ------------------------------------------- claims: Facemotion3D listener

\* C5: stopListening never fails, whatever state the receiver is in (never
\* started, nothing accepted yet, stopped before).
C5_StopIsSafeInEveryState == panicked # "stop"

\* listenTCP is running (launched and not returned).
ListenerRunning ==
    lpc \in {"listen", "loop", "handshake", "backoff", "accept", "assign", "read", "parse"}

\* C6: once stopListening was called on a running listener, the listener can
\* always take a next step towards its exit by itself, with no inbound
\* connection and no inbound bytes.
C6_StopUnblocksListener ==
    (stopCalls >= 1 /\ Alive /\ ListenerRunning) => ENABLED ListenerStep

\* C7: while the receiver was not stopped the listener has neither left its
\* loop nor died.
C7_ListenerEndsOnlyAfterStop ==
    serverEnabled => (lpc # "exited" /\ panicked # "listener")

\* ---------------------------------------------- claims: camera viewers

\* C8: the pool update a handler runs after its read failed invokes no
\* callback (the failure reaches no other viewer).
C8_ReadFailureStaysLocal ==
    (lastUpdate.cause = "failure") => (lastUpdate.invoked = {})

\* The handler of v is in the update it runs for the given cause.
InUpdate(v, cause) == cpc[v] \in {"wait", "pass"} /\ arg[v].cause = cause

\* The handlers whose read has failed.
ReadFailed(v) == cpc[v] \in {"failed", "deleted", "done"} \/ InUpdate(v, "failure")

\* The handlers that are past Create and have not seen their read fail.
LiveCameraHandlers ==
    { v \in CameraViewers :
        cpc[v] \in {"created", "reading", "update"} \/ InUpdate(v, "init")
            \/ InUpdate(v, "message") }

\* C9: the pool's subscribers are the live camera handlers (and at most the
\* handlers whose next statement is the Delete after their failed read), and
\* no step enters the callback of a viewer whose read has failed.
C9_SubscribersAreLiveViewers ==
    [][/\ LiveCameraHandlers' \subseteq cameraPool'
       /\ cameraPool' \subseteq
              (LiveCameraHandlers' \cup {v \in CameraViewers : cpc'[v] = "failed"})
       /\ \A v \in CameraViewers :
              (ReadFailed(v) /\ passCb' = v) => (passCb = v)]_vars

\* C10: a connected viewer whose handler is past its first update was sent
\* the stored camera through its own callback in that update.
C10_NewViewerSentCamera ==
    \A v \in CameraViewers :
        (ws[v] = "ok" /\ cpc[v] \notin {"idle", "created"} /\ ~InUpdate(v, "init"))
            => (initSent[v] \in Cameras)

\* No camera handler is between a read and the update that follows it, or
\* between its creation and its first update: no update is still to come.
CameraQuiet == \A v \in CameraViewers : cpc[v] \in {"idle", "reading", "done", "panicked"}

\* C11: once no update is pending, the last camera written to every viewer
\* that is still connected is the camera stored in the scene configuration.
C11_ViewersConverge ==
    CameraQuiet =>
        \A v \in CameraViewers :
            (cpc[v] = "reading" /\ ws[v] = "ok") => (lastSent[v] = sceneCamera)

\* ----------------------------------------------------- claims: parseFrame

\* parseFrame was called on the example frame and has returned or panicked.
ExampleParsed == frameStr = ExampleFrame /\ ppc # "ready"

\* The pose writes are one blend shape named key with weight 0.2, then the
\* bone Head with the rotation of three zero angles, and nothing else.
ExampleWrites(key) ==
    /\ ppc = "done"
    /\ Len(poseWrites) = 2
    /\ poseWrites[1].kind = "blendShape"
    /\ poseWrites[1].key = key
    /\ QuotIs(poseWrites[1].weight, 2, 10)
    /\ poseWrites[2].kind = "bone"
    /\ poseWrites[2].key = HeadBone
    /\ IsIdentity(poseWrites[2].rotation)

\* C12 as stated: parsing x=0&20|Head=#0,0,0,| writes the blend shape "X"
\* with weight 0.2 and the Head bone with the identity rotation, nothing else.
C12_ExampleWritesX == ExampleParsed => ExampleWrites(<<"X">>)

\* C12, amended: parsing x=0&20|Head=#0,0,0,| writes the blend shape named
\* "X=0", the whole text before "&" with its first letter in upper case,
\* with weight 0.2, and the Head bone with the identity rotation, nothing else.
C12_ExampleWritesXEq0 == ExampleParsed => ExampleWrites(<<"X", "=", "0">>)

C12_Witness == ExampleParsed /\ ppc = "done" /\ Len(poseWrites) = 2

\* The field is a blend shape whose value is no number, or a bone one of
\* whose three Euler components is no number or is missing.
NumberMalformed(field) ==
    \/ /\ Contains(field, <<"&">>)
       /\ ~Contains(field, FM_)
       /\ ParseFloat(Split(field, <<"&">>)[2]).err
    \/ /\ Contains(field, <<"#">>)
       /\ LET parts == Split(Split(field, <<"#">>)[2], <<",">>)
          IN  Len(parts) < 3 \/ \E k \in 1..3 : ParseFloat(parts[k]).err

\* The pose writes of the fields whose numbers are well formed, in order.
RECURSIVE WellFormedWrites(_)
WellFormedWrites(payload) ==
    IF payload = <<>> THEN <<>>
    ELSE (IF NumberMalformed(Head(payload)) THEN <<>> ELSE ParseField(Head(payload)).writes)
         \o WellFormedWrites(Tail(payload))

\* C16: a field with a malformed number makes no pose write and no failure,
\* and every well-formed field of the frame, before and after it, is applied.
C16_MalformedFieldOnlySkipped ==
    (ppc # "ready") =>
        /\ ppc = "done"
        /\ poseWrites = WellFormedWrites(Split(frameStr, <<"|">>))

\* ------------------------------------------------ claims: the read buffer

\* C14: the bytes of a payload that was matched and parsed are in no payload
\* a later read on the connection matches and parses.
C14_PayloadParsedOnce ==
    lastRead.matched => (Range(lastRead.frameIds) \cap lastRead.parsedBefore = {})

C14_Witness ==
    /\ lastRead.matched
    /\ lastRead.frameIds # <<>>
    /\ lastRead.parsedBefore # {}

\* C15: the prune after a match removes the buffer's start through the
\* matched payload and nothing else: what followed the payload, from the
\* closing sentinel on, is the buffer afterwards, byte for byte.
C15_PruneKeepsWhatFollows ==
    lastRead.matched =>
        (lastRead.afterIds =
            SubSeq(lastRead.beforeIds, lastRead.m.close, Len(lastRead.beforeIds)))

\* The positions of the sentinels in s.
SentinelsAt(s) == {k \in 1..Len(s) : s[k] = Sentinel}

\* C19: a read that finds more than one complete frame in the buffer (three
\* sentinels or more) parses the frame between the last two sentinels, and
\* no byte of the frames before it stays in the buffer.
C19_LastCompleteFrameParsed ==
    LET at   == SentinelsAt(lastRead.before)
        last == Max(at)
        prev == Max(at \ {last})
    IN  (Cardinality(at) >= 3) =>
            /\ lastRead.matched
            /\ lastRead.m.open = prev
            /\ lastRead.m.close = last
            /\ \A k \in Min(at)..(prev - 1) :
                   lastRead.beforeIds[k] \notin Range(lastRead.afterIds)

\* ------------------------------------------ claims: listener, second part

\* The inbound connections the listener accepted and has not closed.
HeldConns == {c \in Conns : connState[c] \in {"open", "peerclosed"}}

\* C13: the listener starts a handshake-and-accept round with no accepted
\* connection left unclosed, and never holds more than one.
C13_FailedConnectionClosed ==
    /\ (lpc \in {"handshake", "accept"}) => (HeldConns = {})
    /\ Cardinality(HeldConns) <= 1

\* C18: once stopListening was called, no step accepts a connection and no
\* step parses a frame into the pose model.
C18_NothingAfterStop ==
    [][(stopCalls >= 1) =>
          /\ framesParsed' = framesParsed
          /\ \A c \in Conns : (connState[c] = "unused") => (connState'[c] = "unused")]_vars

\* ---------------------------------------------- claims: router, second part

\* C17: the tick in which a model viewer's write fails is its handler's last:
\* the handler leaves its loop.
C17_FailedWriteEndsLoop ==
    [][\A v \in ModelViewers :
          (mbroken[v] /\ mpc[v] = "loaded" /\ mpc'[v] # "loaded") => (mpc'[v] = "closed")]_vars

\* C20: the active receiver is one whose listener was started.
C20_ActiveReceiverStarted == (activeReceiver # Nil) => (activeReceiver \in started)

\* ------------------------------------------ claims: camera viewers, upgrade

\* C21: a camera handler whose upgrade failed registers no subscriber and
\* runs no pool update: every subscriber of the pool has a WebSocket to
\* write to, and the last update was run by a handler that has one.
C21_FailedUpgradeRegistersNothing ==
    /\ \A v \in cameraPool : ws[v] # Nil
    /\ \A v \in CameraViewers : (lastUpdate.by = v) => (ws[v] # Nil)
====
